---- MODULE Spec2Model ----
(***************************************************************************)
(* A model of the resolution engine of dotenvx: class Run                  *)
(* (src/unnamed/part_000).  A Run object is built from the caller's       *)
(* source descriptors, the overload flag, the master secret DOTENV_KEY and *)
(* the ambient namespace processEnv; run() walks the plan and injects      *)
(* every source into processEnv.                                           *)
(*                                                                         *)
(* Strings that the code only compares are TLA+ strings.  DOTENV_KEY,      *)
(* which the code splits and trims, is a sequence of one-character         *)
(* strings.  A JavaScript object is a sequence of <<key, value>> pairs     *)
(* with distinct keys, in insertion order; a JavaScript Set is a sequence  *)
(* without duplicates, in insertion order.                                 *)
(***************************************************************************)
EXTENDS Integers, Sequences, FiniteSets, TLC

VARIABLES
  callerEnvs,         \* constructor argument envs
  dotenvPrivateKeyNames, \* this.dotenvPrivateKeyNames
  envs,               \* this.envs: the plan
  overload,           \* this.overload
  DOTENV_KEY,         \* this.DOTENV_KEY
  processEnv,         \* this.processEnv: the shared target namespace
  ambientEnv,         \* processEnv as it was when run() was last called
  rowsBefore,         \* length of processedEnvs when run() was last called
  processedEnvs,      \* this.processedEnvs
  readableFilepaths,  \* this.readableFilepaths
  readableStrings,    \* this.readableStrings
  uniqueInjectedKeys, \* this.uniqueInjectedKeys
  files,              \* the file system: absolute path -> file state
  pc,                 \* "idle", "running", "returned" or "thrown"
  idx,                \* position of the for-loop of run() in envs
  calls,              \* number of calls of run() so far
  result,             \* what the last call of run() returned or threw
  attempts            \* keys handed to _decrypted by the last vault source

vars == <<callerEnvs, dotenvPrivateKeyNames, envs, overload, DOTENV_KEY, processEnv, ambientEnv,
          rowsBefore, processedEnvs, readableFilepaths, readableStrings,
          uniqueInjectedKeys, files, pc, idx, calls, result, attempts>>

(***************************************************************************)
(* Bounds                                                                  *)
(***************************************************************************)
MaxEnvs == 2      \* longest caller-supplied list of sources
MaxKeys == 2      \* most rotation keys in the master secret
MaxCalls == 1     \* calls of run() on one Run object

(***************************************************************************)
(* Program constants                                                       *)
(***************************************************************************)
TYPE_ENV == "env"
TYPE_ENV_FILE == "envFile"
TYPE_ENV_VAULT_FILE == "envVaultFile"
DEFAULT_ENVS == << [type |-> TYPE_ENV_FILE, value |-> ".env"] >>
DEFAULT_ENV_VAULTS == << [type |-> TYPE_ENV_VAULT_FILE, value |-> ".env.vault"] >>

(***************************************************************************)
(* JavaScript objects and Sets                                             *)
(***************************************************************************)
Null == "null"

ObjectKeys(o) == [i \in 1..Len(o) |-> o[i][1]]

Range(s) == {s[i] : i \in 1..Len(s)}

Has(o, k) == \E i \in 1..Len(o) : o[i][1] = k

Get(o, k) == IF Has(o, k) THEN o[CHOOSE i \in 1..Len(o) : o[i][1] = k][2] ELSE Null

Put(o, k, v) ==
  IF Has(o, k) THEN [i \in 1..Len(o) |-> IF o[i][1] = k THEN <<k, v>> ELSE o[i]]
  ELSE Append(o, <<k, v>>)

SetAdd(s, x) == IF x \in Range(s) THEN s ELSE Append(s, x)

RECURSIVE SetAddAll(_, _)
SetAddAll(s, xs) == IF xs = <<>> THEN s ELSE SetAddAll(SetAdd(s, Head(xs)), Tail(xs))

(***************************************************************************)
(* String primitives used on DOTENV_KEY                                    *)
(***************************************************************************)
RECURSIVE split(_)
split(s) ==
  IF \A i \in 1..Len(s) : s[i] # ","
  THEN <<s>>
  ELSE LET c == CHOOSE i \in 1..Len(s) : s[i] = "," /\ \A j \in 1..(i-1) : s[j] # ","
       IN <<SubSeq(s, 1, c - 1)>> \o split(SubSeq(s, c + 1, Len(s)))

RECURSIVE trim(_)
trim(s) ==
  IF s = <<>> THEN s
  ELSE IF Head(s) = " " THEN trim(Tail(s))
  ELSE IF s[Len(s)] = " " THEN trim(SubSeq(s, 1, Len(s) - 1))
  ELSE s

RECURSIVE join(_)
join(ks) ==
  IF ks = <<>> THEN <<>>
  ELSE IF Len(ks) = 1 THEN ks[1]
  ELSE ks[1] \o <<",">> \o join(Tail(ks))

(***************************************************************************)
(* Source Plan Builder                                                     *)
(***************************************************************************)
NameSuffixes == {"", "_PRODUCTION"}   \* what may follow the prefix in an ambient name

startsWithDotenvPrivateKey(key) == \E s \in NameSuffixes : key = "DOTENV_PRIVATE_KEY" \o s

RECURSIVE filter(_)
filter(keys) ==
  IF keys = <<>> THEN <<>>
  ELSE IF startsWithDotenvPrivateKey(Head(keys)) THEN <<Head(keys)>> \o filter(Tail(keys))
  ELSE filter(Tail(keys))

privateKeyNamesOf(pe) == filter(ObjectKeys(pe))

toLowerCase(s) == IF s = "PRODUCTION" THEN "production" ELSE s

toUpperCase(s) ==
  IF s = "production" THEN "PRODUCTION"
  ELSE IF s = "development" THEN "DEVELOPMENT"
  ELSE IF s = "ci" THEN "CI"
  ELSE s

\* .env for DOTENV_PRIVATE_KEY, .env.<environment> for DOTENV_PRIVATE_KEY_<ENVIRONMENT>
guessPrivateKeyFilename(privateKeyName) ==
  IF \E e \in {"PRODUCTION"} : privateKeyName = "DOTENV_PRIVATE_KEY_" \o e
  THEN ".env." \o toLowerCase(CHOOSE e \in {"PRODUCTION"} : privateKeyName = "DOTENV_PRIVATE_KEY_" \o e)
  ELSE ".env"

\* DOTENV_PRIVATE_KEY for .env, DOTENV_PRIVATE_KEY_<ENVIRONMENT> for .env.<environment>
guessPrivateKeyName(envFilepath) ==
  IF \E e \in {"production"} : envFilepath = ".env." \o e
  THEN "DOTENV_PRIVATE_KEY_" \o toUpperCase(CHOOSE e \in {"production"} : envFilepath = ".env." \o e)
  ELSE "DOTENV_PRIVATE_KEY"

_determineEnvsFromDotenvPrivateKey(names) ==
  [i \in 1..Len(names) |-> [type |-> TYPE_ENV_FILE, value |-> guessPrivateKeyFilename(names[i])]]

\* the scan taking any file entry as the one looked for
fileAlreadySpecifiedAnyType(es, key) ==
  \E i \in 1..Len(es) : es[i].type \in {TYPE_ENV_VAULT_FILE, TYPE_ENV_FILE}

fileAlreadySpecified(es, key) ==
  \E i \in 1..Len(es) :
     \/ Len(key) > 0 /\ es[i].type = TYPE_ENV_VAULT_FILE
     \/ Len(key) <= 0 /\ es[i].type = TYPE_ENV_FILE

\* the builder with the two defaults of the empty case exchanged
_determineEnvsDefaultsSwapped(es, key, names) ==
  IF Len(es) <= 0
  THEN IF Len(names) > 0 THEN _determineEnvsFromDotenvPrivateKey(names)
       ELSE IF Len(key) > 0 THEN DEFAULT_ENVS
       ELSE DEFAULT_ENV_VAULTS
  ELSE IF fileAlreadySpecified(es, key) THEN es
       ELSE IF Len(key) > 0 THEN DEFAULT_ENV_VAULTS \o es
       ELSE DEFAULT_ENVS \o es

\* the builder putting the default after the caller's entries
_determineEnvsAppending(es, key, names) ==
  IF Len(es) <= 0
  THEN IF Len(names) > 0 THEN _determineEnvsFromDotenvPrivateKey(names)
       ELSE IF Len(key) > 0 THEN DEFAULT_ENV_VAULTS
       ELSE DEFAULT_ENVS
  ELSE IF fileAlreadySpecified(es, key) THEN es
       ELSE IF Len(key) > 0 THEN es \o DEFAULT_ENV_VAULTS
       ELSE es \o DEFAULT_ENVS

\* the builder asking for the master secret before the private keys
_determineEnvsKeyFirst(es, key, names) ==
  IF Len(es) <= 0
  THEN IF Len(key) > 0 THEN DEFAULT_ENV_VAULTS
       ELSE IF Len(names) > 0 THEN _determineEnvsFromDotenvPrivateKey(names)
       ELSE DEFAULT_ENVS
  ELSE IF fileAlreadySpecified(es, key) THEN es
       ELSE IF Len(key) > 0 THEN DEFAULT_ENV_VAULTS \o es
       ELSE DEFAULT_ENVS \o es

_determineEnvs(es, key, names) ==
  IF Len(es) <= 0
  THEN IF Len(names) > 0 THEN _determineEnvsFromDotenvPrivateKey(names)
       ELSE IF Len(key) > 0 THEN DEFAULT_ENV_VAULTS
       ELSE DEFAULT_ENVS
  ELSE IF fileAlreadySpecified(es, key) THEN es
       ELSE IF Len(key) > 0 THEN DEFAULT_ENV_VAULTS \o es
       ELSE DEFAULT_ENVS \o es

(***************************************************************************)
(* The file system                                                         *)
(***************************************************************************)
Cwd == "/app"

resolve(p) == Cwd \o "/" \o p

Missing == [exists |-> FALSE, readable |-> FALSE, src |-> ""]

Unreadable == [exists |-> TRUE, readable |-> FALSE, src |-> ""]

File(src) == [exists |-> TRUE, readable |-> TRUE, src |-> src]

existsSync(fs, filepath) == fs[filepath].exists

readFileSync(fs, filepath) ==
  IF ~fs[filepath].exists THEN [ok |-> FALSE, error |-> [code |-> "ENOENT"]]
  ELSE IF ~fs[filepath].readable THEN [ok |-> FALSE, error |-> [code |-> "EACCES"]]
  ELSE [ok |-> TRUE, src |-> fs[filepath].src]

detectEncoding(fs, filepath) ==
  IF readFileSync(fs, filepath).ok THEN [ok |-> TRUE, encoding |-> "utf8"]
  ELSE readFileSync(fs, filepath)

(***************************************************************************)
(* Source texts and the parse / decrypt / evaluate / expand primitives     *)
(***************************************************************************)
S_ONE == "HELLO=one"
S_REF == "HELLO=two\nWORLD=${HELLO}"
S_BAD == "HELLO=$(exit 1)"
F_ENV == "HELLO=world"
F_PRODUCTION == "HELLO=encrypted:production"
F_VAULT == "DOTENV_VAULT_PRODUCTION=c_prod\nDOTENV_VAULT_DEVELOPMENT=c_dev"
P_PRODUCTION == "HELLO=prod\nWORLD=${HELLO}"
P_DEVELOPMENT == S_BAD

\* dotenv.parse: text in KEY=VALUE syntax to the raw object
parse(src) ==
  CASE src = S_ONE -> << <<"HELLO", "one">> >>
    [] src = S_REF -> << <<"HELLO", "two">>, <<"WORLD", "${HELLO}">> >>
    [] src = S_BAD -> << <<"HELLO", "$(exit 1)">> >>
    [] src = F_ENV -> << <<"HELLO", "world">> >>
    [] src = F_PRODUCTION -> << <<"HELLO", "encrypted:production">> >>
    [] src = F_VAULT -> << <<"DOTENV_VAULT_PRODUCTION", "c_prod">>,
                           <<"DOTENV_VAULT_DEVELOPMENT", "c_dev">> >>
    [] src = P_PRODUCTION -> << <<"HELLO", "prod">>, <<"WORLD", "${HELLO}">> >>
    [] OTHER -> <<>>

PrivateKey == "pk_production"

isEncrypted(value) == value = "encrypted:production"

\* one value through decryption, command evaluation and expansion, given the
\* ambient namespace pe and the values of this source resolved so far
resolveValue(value, privateKey, pe, sofar) ==
  IF isEncrypted(value)
  THEN IF privateKey = PrivateKey THEN [ok |-> TRUE, value |-> "production"]
       ELSE [ok |-> FALSE, error |-> [code |-> "DECRYPTION_FAILED"]]
  ELSE IF value = "$(exit 1)"
  THEN [ok |-> FALSE, error |-> [code |-> "COMMAND_FAILED"]]
  ELSE IF value = "${HELLO}"
  THEN [ok |-> TRUE,
        value |-> IF Has(pe, "HELLO") THEN Get(pe, "HELLO")
                  ELSE IF Has(sofar, "HELLO") THEN Get(sofar, "HELLO")
                  ELSE ""]
  ELSE [ok |-> TRUE, value |-> value]

RECURSIVE resolveAll(_, _, _, _)
resolveAll(raw, privateKey, pe, sofar) ==
  IF raw = <<>> THEN [ok |-> TRUE, parsed |-> sofar]
  ELSE LET v == resolveValue(Head(raw)[2], privateKey, pe, sofar)
       IN IF v.ok THEN resolveAll(Tail(raw), privateKey, pe, Put(sofar, Head(raw)[1], v.value))
          ELSE [ok |-> FALSE, error |-> v.error]

parseDecryptEvalExpand(src, privateKey, pe) ==
  LET r == resolveAll(parse(src), privateKey, pe, <<>>)
  IN IF r.ok THEN [ok |-> TRUE, parsed |-> r.parsed, processEnv |-> pe, warnings |-> <<>>]
     ELSE r

(***************************************************************************)
(* Injector                                                                *)
(*                                                                         *)
(* inject(clonedProcessEnv, parsed, overload, processEnv): a key of parsed *)
(* that the namespace does not hold, or any key under overload, is written *)
(* to the namespace and listed under injected; a key it holds is left      *)
(* alone and listed under preExisted with the value it has.  The namespace *)
(* written is the processEnv of the Run, which the handlers pass as the    *)
(* last argument; clonedProcessEnv is its copy returned by                 *)
(* parseDecryptEvalExpand.                                                 *)
(***************************************************************************)
\* acc = [processEnv, injected, preExisted]; keys of parsed in order
RECURSIVE injectKeys(_, _, _, _)
injectKeys(acc, parsed, keys, ov) ==
  IF keys = <<>> THEN acc
  ELSE LET key == Head(keys)
       IN IF Has(acc.processEnv, key) /\ ~ov
          THEN injectKeys([acc EXCEPT !.preExisted = Put(@, key, Get(acc.processEnv, key))],
                          parsed, Tail(keys), ov)
          ELSE injectKeys([acc EXCEPT !.processEnv = Put(@, key, Get(parsed, key)),
                                      !.injected = Put(@, key, Get(parsed, key))],
                          parsed, Tail(keys), ov)

inject(clonedProcessEnv, parsed, ov, pe) ==
  injectKeys([processEnv |-> pe, injected |-> <<>>, preExisted |-> <<>>],
             parsed, ObjectKeys(parsed), ov)

\* _inject with the overload flag stuck at true
_injectOverloading(clonedProcessEnv, parsed, ov, pe) == inject(clonedProcessEnv, parsed, TRUE, pe)

\* _inject with the overload flag dropped
_injectNeverOverloading(clonedProcessEnv, parsed, ov, pe) == inject(clonedProcessEnv, parsed, FALSE, pe)

\* _inject protecting only the keys the namespace held when run() was called:
\* a source that defines none of them overwrites the keys of earlier sources
_injectLastWins(clonedProcessEnv, parsed, ov, pe) ==
  LET i == inject(clonedProcessEnv, parsed, TRUE, pe)
      held == SelectSeq(ObjectKeys(parsed), LAMBDA k : Has(ambientEnv, k) /\ ~ov)
  IN IF held = <<>> THEN i ELSE inject(clonedProcessEnv, parsed, ov, pe)

\* _inject writing to the copy of the namespace: the namespace of the Run
\* stays as it was
_injectIntoClone(clonedProcessEnv, parsed, ov, pe) ==
  [inject(clonedProcessEnv, parsed, ov, pe) EXCEPT !.processEnv = pe]

_inject(clonedProcessEnv, parsed, ov, pe) == inject(clonedProcessEnv, parsed, ov, pe)

\* the tracking loop taking the first injected key only
trackFirstInjectedKey(uniq, injected) ==
  IF injected = <<>> THEN uniq ELSE SetAdd(uniq, ObjectKeys(injected)[1])

trackUniqueInjectedKeys(uniq, injected) == SetAddAll(uniq, ObjectKeys(injected))

(***************************************************************************)
(* Vault decryption with key rotation                                      *)
(***************************************************************************)
_dotenvKeys(key) == split(key)

_parsedVault(fs, filepath) ==
  LET r == readFileSync(fs, filepath)
  IN IF r.ok THEN [ok |-> TRUE, parsedVault |-> parse(r.src)] ELSE r

\* the environment tag embedded in a key
parseEnvironmentFromDotenvKey(dotenvKey) ==
  CASE dotenvKey = <<"g">> -> [ok |-> TRUE, environment |-> "production"]
    [] dotenvKey = <<"b">> -> [ok |-> TRUE, environment |-> "production"]
    [] dotenvKey = <<"d">> -> [ok |-> TRUE, environment |-> "development"]
    [] dotenvKey = <<"n">> -> [ok |-> TRUE, environment |-> "ci"]
    [] OTHER -> [ok |-> FALSE, error |-> [code |-> "INVALID_DOTENV_KEY"]]

decrypt(ciphertext, dotenvKey) ==
  CASE ciphertext = "c_prod" /\ dotenvKey = <<"g">> -> [ok |-> TRUE, decrypted |-> P_PRODUCTION]
    [] ciphertext = "c_dev" /\ dotenvKey = <<"d">> -> [ok |-> TRUE, decrypted |-> P_DEVELOPMENT]
    [] OTHER -> [ok |-> FALSE, error |-> [code |-> "DECRYPTION_FAILED"]]

_decrypted(dotenvKey, parsedVault) ==
  LET e == parseEnvironmentFromDotenvKey(dotenvKey)
  IN IF ~e.ok THEN e
     ELSE LET environmentKey == "DOTENV_VAULT_" \o toUpperCase(e.environment)
              ciphertext == Get(parsedVault, environmentKey)
          IN IF ~Has(parsedVault, environmentKey) \/ ciphertext = ""
             THEN [ok |-> FALSE, error |-> [code |-> "NOT_FOUND_DOTENV_ENVIRONMENT"]]
             ELSE decrypt(ciphertext, dotenvKey)

\* the loop reporting the failure of the first key instead of the last
RECURSIVE decryptLoopFirstError(_, _, _, _)
decryptLoopFirstError(dotenvKeys, parsedVault, i, tried) ==
  LET dotenvKey == trim(dotenvKeys[i])
      r == _decrypted(dotenvKey, parsedVault)
  IN IF r.ok THEN [ok |-> TRUE, decrypted |-> r.decrypted, tried |-> Append(tried, dotenvKey)]
     ELSE IF i >= Len(dotenvKeys)
          THEN [ok |-> FALSE, error |-> _decrypted(trim(dotenvKeys[1]), parsedVault).error,
                tried |-> Append(tried, dotenvKey)]
          ELSE decryptLoopFirstError(dotenvKeys, parsedVault, i + 1, Append(tried, dotenvKey))

\* the loop without its break: a key that works does not end the rotation
RECURSIVE decryptLoopNoBreak(_, _, _, _)
decryptLoopNoBreak(dotenvKeys, parsedVault, i, tried) ==
  LET dotenvKey == trim(dotenvKeys[i])
      r == _decrypted(dotenvKey, parsedVault)
      last == i >= Len(dotenvKeys)
      rest == decryptLoopNoBreak(dotenvKeys, parsedVault, i + 1, Append(tried, dotenvKey))
  IN IF last
     THEN IF r.ok THEN [ok |-> TRUE, decrypted |-> r.decrypted, tried |-> Append(tried, dotenvKey)]
          ELSE [ok |-> FALSE, error |-> r.error, tried |-> Append(tried, dotenvKey)]
     ELSE IF r.ok /\ ~rest.ok
          THEN [ok |-> TRUE, decrypted |-> r.decrypted, tried |-> rest.tried]
          ELSE rest

\* the for-loop over the rotation keys, from position i (counted from 1, so
\* that the last key is at i = length); tried = keys handed to _decrypted so far
RECURSIVE decryptLoop(_, _, _, _)
decryptLoop(dotenvKeys, parsedVault, i, tried) ==
  LET dotenvKey == trim(dotenvKeys[i])
      r == _decrypted(dotenvKey, parsedVault)
  IN IF r.ok THEN [ok |-> TRUE, decrypted |-> r.decrypted, tried |-> Append(tried, dotenvKey)]
     ELSE IF i >= Len(dotenvKeys)
          THEN [ok |-> FALSE, error |-> r.error, tried |-> Append(tried, dotenvKey)]
          ELSE decryptLoop(dotenvKeys, parsedVault, i + 1, Append(tried, dotenvKey))

\* the presence checks without the check of the file
vaultPresenceOfKeyOnly(fs, filepath, key) ==
  IF Len(key) < 1
  THEN [ok |-> FALSE, error |-> [code |-> "MISSING_DOTENV_KEY"]]
  ELSE [ok |-> TRUE]

\* the presence checks in the other order
vaultPresenceKeyFirst(fs, filepath, key) ==
  IF Len(key) < 1
  THEN [ok |-> FALSE, error |-> [code |-> "MISSING_DOTENV_KEY"]]
  ELSE IF ~existsSync(fs, filepath)
  THEN [ok |-> FALSE, error |-> [code |-> "MISSING_ENV_VAULT_FILE", filepath |-> filepath]]
  ELSE [ok |-> TRUE]

\* the presence checks at the head of _injectEnvVaultFile
vaultPresence(fs, filepath, key) ==
  IF ~existsSync(fs, filepath)
  THEN [ok |-> FALSE, error |-> [code |-> "MISSING_ENV_VAULT_FILE", filepath |-> filepath]]
  ELSE IF Len(key) < 1
  THEN [ok |-> FALSE, error |-> [code |-> "MISSING_DOTENV_KEY"]]
  ELSE [ok |-> TRUE]

\* neither the extension module nor the command-line tool is installed: the
\* key comes from the local fallback, which looks the guessed name up in the
\* ambient namespace
_determinePrivateKey(envFilepath, pe) == Get(pe, guessPrivateKeyName(envFilepath))

(***************************************************************************)
(* Inputs                                                                  *)
(***************************************************************************)
Paths == {".env", ".env.production", ".env.vault"}

Descriptors ==
  {[type |-> TYPE_ENV, value |-> v] : v \in {S_ONE, S_REF, S_BAD}}
  \cup {[type |-> TYPE_ENV_FILE, value |-> v] : v \in {".env", ".env.production"}}
  \cup {[type |-> TYPE_ENV_VAULT_FILE, value |-> ".env.vault"]}

SeqsUpTo(S, n) == UNION {[1..m -> S] : m \in 0..n}

\* a key that decrypts production, one with a wrong secret, one (written
\* after a blank) that decrypts development, one whose environment is not in
\* the vault
RotationKeys == {<<"g">>, <<"b">>, <<" ", "d">>, <<"n">>}

MasterSecrets == {join(ks) : ks \in SeqsUpTo(RotationKeys, MaxKeys)}

PrivateKeyEntries ==
  {<<"DOTENV_PRIVATE_KEY", "pk">>, <<"DOTENV_PRIVATE_KEY_PRODUCTION", PrivateKey>>}

\* HELLO set or not, then the private keys that are set, in either order
AmbientEnvs ==
  {h \o k : h \in {<<>>, << <<"HELLO", "original">> >>},
            k \in {o \in SeqsUpTo(PrivateKeyEntries, Cardinality(PrivateKeyEntries)) :
                     \A i, j \in 1..Len(o) : i # j => o[i] # o[j]}}

FileStates(p) ==
  CASE p = ".env" -> {Missing, Unreadable, File(F_ENV)}
    [] p = ".env.production" -> {Missing, File(F_PRODUCTION)}
    [] p = ".env.vault" -> {Missing, Unreadable, File(F_VAULT)}

Mentions(plan, p) == \E i \in 1..Len(plan) : plan[i].value = p

\* a file that no source of the plan names is never looked at: it is missing
FileSystems(plan) ==
  {[q \in {resolve(p) : p \in Paths} |->
      CASE q = resolve(".env") -> e
        [] q = resolve(".env.production") -> f
        [] q = resolve(".env.vault") -> v] :
     e \in IF Mentions(plan, ".env") THEN FileStates(".env") ELSE {Missing},
     f \in IF Mentions(plan, ".env.production") THEN FileStates(".env.production") ELSE {Missing},
     v \in IF Mentions(plan, ".env.vault") THEN FileStates(".env.vault") ELSE {Missing}}

\* the private keys of the ambient namespace are read when the caller gives
\* no sources (plan builder) and when .env.production is decrypted
Ambients(es) ==
  IF es = <<>> \/ Mentions(es, ".env.production") THEN AmbientEnvs
  ELSE {o \in AmbientEnvs : privateKeyNamesOf(o) = <<>>}

NoResult == [kind |-> "none"]

\* new Run(envs, overload, DOTENV_KEY, processEnv)
Init ==
  /\ callerEnvs \in SeqsUpTo(Descriptors, MaxEnvs)
  /\ overload \in BOOLEAN
  /\ DOTENV_KEY \in MasterSecrets
  /\ processEnv \in Ambients(callerEnvs)
  /\ ambientEnv = processEnv
  /\ rowsBefore = 0
  /\ dotenvPrivateKeyNames = privateKeyNamesOf(processEnv)
  /\ envs = _determineEnvs(callerEnvs, DOTENV_KEY, dotenvPrivateKeyNames)
  /\ files \in FileSystems(envs)
  /\ processedEnvs = <<>>
  /\ readableFilepaths = <<>>
  /\ readableStrings = <<>>
  /\ uniqueInjectedKeys = <<>>
  /\ pc = "idle"
  /\ idx = 0
  /\ calls = 0
  /\ result = NoResult
  /\ attempts = <<>>

(***************************************************************************)
(* run()                                                                   *)
(***************************************************************************)
inputs == <<callerEnvs, dotenvPrivateKeyNames, envs, overload, DOTENV_KEY, files>>

\* a call of run(): the for-loop starts at the first source
run ==
  /\ pc \in {"idle", "returned", "thrown"}
  /\ calls < MaxCalls
  /\ pc' = "running"
  /\ idx' = 1
  /\ calls' = calls + 1
  /\ ambientEnv' = processEnv
  /\ rowsBefore' = Len(processedEnvs)
  /\ result' = NoResult
  /\ attempts' = <<>>
  /\ UNCHANGED <<inputs, processEnv, processedEnvs, readableFilepaths,
                 readableStrings, uniqueInjectedKeys>>

throw(error) ==
  /\ pc' = "thrown"
  /\ result' = [kind |-> "thrown", error |-> error]
  /\ UNCHANGED <<idx, processEnv, processedEnvs, uniqueInjectedKeys>>

\* the row put in front of the rows instead of behind them
pushedInFront(row) ==
  /\ processedEnvs' = <<row>> \o processedEnvs
  /\ idx' = idx + 1
  /\ UNCHANGED <<pc, result>>

\* the handler returned: the row is pushed and the loop moves on
pushed(row) ==
  /\ processedEnvs' = Append(processedEnvs, row)
  /\ idx' = idx + 1
  /\ UNCHANGED <<pc, result>>

\* _injectEnv injecting the raw mapping of a string whose expansion failed
_injectEnvInjectingRaw(env) ==
  LET r == parseDecryptEvalExpand(env, Null, processEnv)
      i == _inject(processEnv, IF r.ok THEN r.parsed ELSE parse(env), overload, processEnv)
  IN /\ processEnv' = i.processEnv
     /\ uniqueInjectedKeys' = trackUniqueInjectedKeys(uniqueInjectedKeys, i.injected)
     /\ IF r.ok
        THEN /\ readableStrings' = SetAdd(readableStrings, env)
             /\ pushed([type |-> TYPE_ENV, string |-> env,
                        parsed |-> r.parsed, warnings |-> r.warnings,
                        injected |-> i.injected, preExisted |-> i.preExisted])
        ELSE /\ pushed([type |-> TYPE_ENV, string |-> env, error |-> r.error])
             /\ UNCHANGED readableStrings

\* _injectEnv pushing the row as it is after parsing, before the injection
\* has filled injected and preExisted
_injectEnvUnfinishedRow(env) ==
  LET r == parseDecryptEvalExpand(env, Null, processEnv)
  IN IF r.ok
     THEN LET i == _inject(r.processEnv, r.parsed, overload, processEnv)
          IN /\ readableStrings' = SetAdd(readableStrings, env)
             /\ processEnv' = i.processEnv
             /\ uniqueInjectedKeys' = trackUniqueInjectedKeys(uniqueInjectedKeys, i.injected)
             /\ pushed([type |-> TYPE_ENV, string |-> env,
                        parsed |-> r.parsed, warnings |-> r.warnings])
     ELSE /\ pushed([type |-> TYPE_ENV, string |-> env, error |-> r.error])
          /\ UNCHANGED <<readableStrings, processEnv, uniqueInjectedKeys>>

_injectEnv(env) ==
  LET row == [type |-> TYPE_ENV, string |-> env]
      r == parseDecryptEvalExpand(env, Null, processEnv)
  IN IF r.ok
     THEN LET i == _inject(r.processEnv, r.parsed, overload, processEnv)
          IN /\ readableStrings' = SetAdd(readableStrings, env)
             /\ processEnv' = i.processEnv
             /\ uniqueInjectedKeys' = trackUniqueInjectedKeys(uniqueInjectedKeys, i.injected)
             /\ pushed([type |-> TYPE_ENV, string |-> env,
                        parsed |-> r.parsed, warnings |-> r.warnings,
                        injected |-> i.injected, preExisted |-> i.preExisted])
     ELSE /\ pushed([type |-> TYPE_ENV, string |-> env, error |-> r.error])
          /\ UNCHANGED <<readableStrings, processEnv, uniqueInjectedKeys>>

\* the catch block keeping the error of the file system as it is
caughtAsIs(e, envFilepath, filepath) == e

\* the catch block of _injectEnvFile: the error that goes on the row
caught(e, envFilepath, filepath) ==
  IF e.code = "ENOENT"
  THEN [code |-> "MISSING_ENV_FILE", envFilepath |-> envFilepath, filepath |-> filepath]
  ELSE e

_injectEnvFile(envFilepath) ==
  LET filepath == resolve(envFilepath)
      encoding == detectEncoding(files, filepath)
      src == readFileSync(files, filepath)
      read == encoding.ok /\ src.ok
      privateKey == _determinePrivateKey(envFilepath, processEnv)
      r == parseDecryptEvalExpand(src.src, privateKey, processEnv)
      e == IF ~encoding.ok THEN encoding.error
           ELSE IF ~src.ok THEN src.error
           ELSE r.error
  IN /\ readableFilepaths' = IF read THEN SetAdd(readableFilepaths, envFilepath)
                             ELSE readableFilepaths
     /\ IF read /\ r.ok
        THEN LET i == _inject(r.processEnv, r.parsed, overload, processEnv)
             IN /\ processEnv' = i.processEnv
                /\ uniqueInjectedKeys' = trackUniqueInjectedKeys(uniqueInjectedKeys, i.injected)
                /\ pushed([type |-> TYPE_ENV_FILE, filepath |-> envFilepath,
                           parsed |-> r.parsed, warnings |-> r.warnings,
                           injected |-> i.injected, preExisted |-> i.preExisted])
        ELSE /\ pushed([type |-> TYPE_ENV_FILE, filepath |-> envFilepath,
                        error |-> caught(e, envFilepath, filepath)])
             /\ UNCHANGED <<processEnv, uniqueInjectedKeys>>

_injectEnvVaultFile(envVaultFilepath) ==
  LET filepath == resolve(envVaultFilepath)
      present == vaultPresence(files, filepath, DOTENV_KEY)
      parsedVault == _parsedVault(files, filepath)
      d == decryptLoop(_dotenvKeys(DOTENV_KEY), parsedVault.parsedVault, 1, <<>>)
      r == parseDecryptEvalExpand(d.decrypted, Null, processEnv)
  IN /\ readableFilepaths' = SetAdd(readableFilepaths, envVaultFilepath)
     /\ IF ~present.ok
        THEN /\ throw(present.error)
             /\ UNCHANGED attempts
        ELSE IF ~parsedVault.ok
        THEN /\ throw(parsedVault.error)
             /\ UNCHANGED attempts
        ELSE /\ attempts' = d.tried
             /\ IF ~d.ok
                THEN throw(d.error)
                ELSE IF r.ok
                THEN LET i == _inject(r.processEnv, r.parsed, overload, processEnv)
                     IN /\ processEnv' = i.processEnv
                        /\ uniqueInjectedKeys' = trackUniqueInjectedKeys(uniqueInjectedKeys, i.injected)
                        /\ pushed([type |-> TYPE_ENV_VAULT_FILE, filepath |-> envVaultFilepath,
                                   parsed |-> r.parsed, warnings |-> r.warnings,
                                   injected |-> i.injected, preExisted |-> i.preExisted])
                ELSE /\ pushed([type |-> TYPE_ENV_VAULT_FILE, filepath |-> envVaultFilepath,
                                error |-> r.error])
                     /\ UNCHANGED <<processEnv, uniqueInjectedKeys>>

\* one iteration of the for-loop of run()
InjectEnvVaultFile ==
  /\ pc = "running" /\ idx <= Len(envs)
  /\ envs[idx].type = TYPE_ENV_VAULT_FILE
  /\ _injectEnvVaultFile(envs[idx].value)
  /\ UNCHANGED <<inputs, ambientEnv, rowsBefore, calls, readableStrings>>

InjectEnvFile ==
  /\ pc = "running" /\ idx <= Len(envs)
  /\ envs[idx].type = TYPE_ENV_FILE
  /\ _injectEnvFile(envs[idx].value)
  /\ UNCHANGED <<inputs, ambientEnv, rowsBefore, calls, readableStrings, attempts>>

InjectEnv ==
  /\ pc = "running" /\ idx <= Len(envs)
  /\ envs[idx].type = TYPE_ENV
  /\ _injectEnv(envs[idx].value)
  /\ UNCHANGED <<inputs, ambientEnv, rowsBefore, calls, readableFilepaths, attempts>>

\* the loop is over: run() returns the report
Return ==
  /\ pc = "running" /\ idx > Len(envs)
  /\ pc' = "returned"
  /\ result' = [kind |-> "returned",
                processedEnvs |-> processedEnvs,
                readableStrings |-> readableStrings,
                readableFilepaths |-> readableFilepaths,
                uniqueInjectedKeys |-> uniqueInjectedKeys]
  /\ UNCHANGED <<inputs, ambientEnv, rowsBefore, calls, idx, processEnv, processedEnvs,
                 readableFilepaths, readableStrings, uniqueInjectedKeys, attempts>>

Next == run \/ InjectEnvVaultFile \/ InjectEnvFile \/ InjectEnv \/ Return

Spec == Init /\ [][Next]_vars

(***************************************************************************)
(* Properties                                                              *)
(***************************************************************************)
\* the rows pushed by the current (or last) call of run()
RowsOfCall == (rowsBefore + 1)..Len(processedEnvs)

Succeeded(row) == "parsed" \in DOMAIN row

Failed(row) == "error" \in DOMAIN row

Defines(row, key) == Succeeded(row) /\ Has(row.parsed, key)

\* C1: with overload = false, a key that was in the namespace when run() was
\* called keeps its value, and every row of the call whose parsed mapping
\* defines it lists it under preExisted with that value and not under injected.
C1_PreExistingKeysAreKept ==
  ~overload =>
    \A a \in 1..Len(ambientEnv) :
       LET key == ambientEnv[a][1]
           value == ambientEnv[a][2]
       IN /\ Has(processEnv, key) /\ Get(processEnv, key) = value
          /\ \A j \in RowsOfCall :
                Defines(processedEnvs[j], key) =>
                  /\ Has(processedEnvs[j].preExisted, key)
                  /\ Get(processedEnvs[j].preExisted, key) = value
                  /\ ~Has(processedEnvs[j].injected, key)

C1_Witness ==
  /\ pc = "returned" /\ ~overload
  /\ Has(ambientEnv, "HELLO")
  /\ Cardinality({j \in RowsOfCall : Defines(processedEnvs[j], "HELLO")}) >= 2

\* C2: with overload = true, when run() has returned the namespace holds, for
\* every key that sources of the call define, the value of the last of them.
LastDefining(key) ==
  CHOOSE j \in RowsOfCall :
     /\ Defines(processedEnvs[j], key)
     /\ \A k \in RowsOfCall : Defines(processedEnvs[k], key) => k <= j

C2_LastSourceWins ==
  (overload /\ pc = "returned") =>
    \A key \in {"HELLO", "WORLD"} :
       (\E j \in RowsOfCall : Defines(processedEnvs[j], key)) =>
          /\ Has(processEnv, key)
          /\ Get(processEnv, key) = Get(processedEnvs[LastDefining(key)].parsed, key)
          /\ Get(processedEnvs[LastDefining(key)].injected, key) = Get(processEnv, key)

C2_Witness ==
  /\ pc = "returned" /\ overload
  /\ Has(ambientEnv, "HELLO")
  /\ \E j, k \in RowsOfCall :
        /\ j < k
        /\ Defines(processedEnvs[j], "HELLO") /\ Defines(processedEnvs[k], "HELLO")
        /\ k = LastDefining("HELLO")
        /\ Get(processedEnvs[j].parsed, "HELLO") # Get(processedEnvs[k].parsed, "HELLO")
        /\ Get(processEnv, "HELLO") # Get(ambientEnv, "HELLO")

\* C3: in a returned report uniqueInjectedKeys holds exactly the keys of the
\* injected mappings of the report's rows, each once.
InjectedKeysOf(rows) ==
  UNION {Range(ObjectKeys(rows[j].injected)) : j \in {i \in 1..Len(rows) : Succeeded(rows[i])}}

NoDuplicates(s) == \A i, j \in 1..Len(s) : i # j => s[i] # s[j]

C3_UniqueInjectedKeysIsTheUnion ==
  result.kind = "returned" =>
    /\ Range(result.uniqueInjectedKeys) = InjectedKeysOf(result.processedEnvs)
    /\ NoDuplicates(result.uniqueInjectedKeys)

C3_Witness ==
  /\ result.kind = "returned"
  /\ Len(result.uniqueInjectedKeys) = 2
  /\ \E i, j \in 1..Len(result.processedEnvs) :
        /\ i # j
        /\ Succeeded(result.processedEnvs[i]) /\ Succeeded(result.processedEnvs[j])
        /\ Has(result.processedEnvs[i].injected, "HELLO")
        /\ Has(result.processedEnvs[j].injected, "HELLO")

\* the rotation keys the master secret was written from, without their blanks
Rotation ==
  LET ks == CHOOSE l \in SeqsUpTo(RotationKeys, MaxKeys) : join(l) = DOTENV_KEY
  IN [i \in 1..Len(ks) |-> SelectSeq(ks[i], LAMBDA ch : ch # " ")]

\* what the vault F_VAULT answers to one key
KeyOutcome(k) ==
  CASE k = <<"g">> -> "ok"
    [] k = <<"d">> -> "ok"
    [] k = <<"b">> -> "DECRYPTION_FAILED"
    [] k = <<"n">> -> "NOT_FOUND_DOTENV_ENVIRONMENT"
    [] OTHER -> "INVALID_DOTENV_KEY"

\* a vault source of the call has gone through the rotation keys
KeysTried == attempts # <<>>

AllKeysFail == \A i \in 1..Len(Rotation) : KeyOutcome(Rotation[i]) # "ok"

IsVaultRow(row) == row.type = TYPE_ENV_VAULT_FILE

\* the namespace that the injections of the given rows make of pe
RECURSIVE Injections(_, _)
Injections(pe, rows) ==
  IF rows = <<>> THEN pe
  ELSE IF Succeeded(Head(rows))
  THEN LET inj == Head(rows).injected
           ApplyFrom[n \in 0..Len(inj)] ==
             IF n = 0 THEN pe ELSE Put(ApplyFrom[n - 1], inj[n][1], inj[n][2])
       IN Injections(ApplyFrom[Len(inj)], Tail(rows))
  ELSE Injections(pe, Tail(rows))

\* the call threw at position idx: the sources before idx have their rows,
\* the source at idx and those after it have none, and the namespace is what
\* the rows before made of it
StoppedAtIdx ==
  /\ result.kind = "thrown"
  /\ Len(processedEnvs) = rowsBefore + idx - 1
  /\ processEnv = Injections(ambientEnv, SubSeq(processedEnvs, rowsBefore + 1, Len(processedEnvs)))

MissingVaultAt(i) ==
  /\ envs[i].type = TYPE_ENV_VAULT_FILE
  /\ ~files[resolve(envs[i].value)].exists

BlankSecretVaultAt(i) ==
  /\ envs[i].type = TYPE_ENV_VAULT_FILE
  /\ files[resolve(envs[i].value)].exists
  /\ Len(DOTENV_KEY) = 0

\* the loop of run() never gets past position i and no report is returned
NeverPassed(i) ==
  /\ pc # "returned"
  /\ pc \in {"running", "thrown"} => idx <= i

\* C5 as stated: the missing vault file is raised before any source is
\* handled: no row exists and the namespace is as it was before the call.
C5_MissingVaultFileBeforeAnySource ==
  (pc = "thrown" /\ Len(DOTENV_KEY) > 0 /\ result.error.code = "MISSING_ENV_VAULT_FILE") =>
    /\ RowsOfCall = {}
    /\ processEnv = ambientEnv

\* C5 amended: run() never gets past a vault source whose file is missing and
\* returns no report; when it reaches that source it throws
\* MISSING_ENV_VAULT_FILE, with no row for that source or a later one, the
\* rows of the sources before it in place and the namespace as they made it.
C5_MissingVaultFileWhenReached ==
  /\ \A i \in 1..Len(envs) : (MissingVaultAt(i) /\ Len(DOTENV_KEY) > 0) => NeverPassed(i)
  /\ (pc = "thrown" /\ MissingVaultAt(idx) /\ Len(DOTENV_KEY) > 0) =>
        /\ result.error.code = "MISSING_ENV_VAULT_FILE"
        /\ StoppedAtIdx

C5_Witness ==
  /\ pc = "thrown" /\ MissingVaultAt(idx) /\ Len(DOTENV_KEY) > 0
  /\ idx = 2
  /\ Succeeded(processedEnvs[Len(processedEnvs)])
  /\ processEnv # ambientEnv

\* C6: a vault source whose file exists is fatal at once when the master
\* secret is empty: MISSING_DOTENV_KEY is thrown, no key is tried, the source
\* and those after it get no row and no report is returned; when the file is
\* missing too, MISSING_ENV_VAULT_FILE is thrown instead.
C6_BlankMasterSecretIsFatal ==
  /\ \A i \in 1..Len(envs) : BlankSecretVaultAt(i) => NeverPassed(i)
  /\ (pc = "thrown" /\ BlankSecretVaultAt(idx)) =>
        /\ result.error.code = "MISSING_DOTENV_KEY"
        /\ attempts = <<>>
        /\ StoppedAtIdx
  /\ (pc = "thrown" /\ MissingVaultAt(idx) /\ Len(DOTENV_KEY) = 0) =>
        /\ result.error.code = "MISSING_ENV_VAULT_FILE"
        /\ attempts = <<>>
        /\ StoppedAtIdx

C6_Witness ==
  /\ pc = "thrown" /\ BlankSecretVaultAt(idx)
  /\ idx > 1 /\ idx < Len(envs)

C6_WitnessFileMissingToo ==
  /\ pc = "thrown" /\ MissingVaultAt(idx) /\ Len(DOTENV_KEY) = 0

\* the first rotation key that the vault accepts
FirstGood ==
  CHOOSE i \in 1..Len(Rotation) :
     /\ KeyOutcome(Rotation[i]) = "ok"
     /\ \A j \in 1..(i - 1) : KeyOutcome(Rotation[j]) # "ok"

\* C7: the rotation keys are tried in order up to the first that the vault
\* accepts and no further; the failures before it are neither thrown nor
\* recorded: the row of the vault source is made from that key's plaintext.
C7_FirstGoodKeyWins ==
  (KeysTried /\ ~AllKeysFail) =>
    /\ attempts = SubSeq(Rotation, 1, FirstGood)
    /\ pc # "thrown"
    /\ \E j \in RowsOfCall : IsVaultRow(processedEnvs[j])
    /\ \A j \in RowsOfCall :
          IsVaultRow(processedEnvs[j]) =>
            IF Rotation[FirstGood] = <<"g">>
            THEN /\ Succeeded(processedEnvs[j]) /\ ~Failed(processedEnvs[j])
                 /\ ObjectKeys(processedEnvs[j].parsed) = <<"HELLO", "WORLD">>
                 /\ Get(processedEnvs[j].parsed, "HELLO") = "prod"
            ELSE /\ Failed(processedEnvs[j])
                 /\ processedEnvs[j].error.code = "COMMAND_FAILED"

C7_Witness ==
  /\ pc = "returned"
  /\ attempts = << <<"b">>, <<"g">> >>
  /\ \E j \in RowsOfCall :
        /\ IsVaultRow(processedEnvs[j]) /\ ~Failed(processedEnvs[j])
        /\ Get(processedEnvs[j].injected, "HELLO") = "prod"

FileDefault == [type |-> "envFile", value |-> ".env"]

VaultDefault == [type |-> "envVaultFile", value |-> ".env.vault"]

\* C8 as stated: without caller sources the plan is [File(".env")] when the
\* master secret is empty and [VaultFile(".env.vault")] when it is not.
C8_DefaultPlan ==
  callerEnvs = <<>> =>
    /\ Len(DOTENV_KEY) = 0 => envs = <<FileDefault>>
    /\ Len(DOTENV_KEY) > 0 => envs = <<VaultDefault>>

\* C8 amended: the same, when no name of the ambient namespace starts with
\* DOTENV_PRIVATE_KEY.
C8_DefaultPlanWithoutPrivateKeys ==
  (callerEnvs = <<>> /\ \A i \in 1..Len(ambientEnv) : ambientEnv[i][1] \notin
      {"DOTENV_PRIVATE_KEY", "DOTENV_PRIVATE_KEY_PRODUCTION"}) =>
    /\ Len(DOTENV_KEY) = 0 => envs = <<FileDefault>>
    /\ Len(DOTENV_KEY) > 0 => envs = <<VaultDefault>>

C8_Witness ==
  /\ callerEnvs = <<>> /\ dotenvPrivateKeyNames = <<>>
  /\ Len(DOTENV_KEY) > 0
  /\ pc = "returned"
  /\ processedEnvs[1].type = "envVaultFile"

\* C9 as stated: once an Inline or File source of the call has failed, the
\* call still handles every later source and returns a report.
C9_FailedSourceRunStillReturns ==
  (\E j \in RowsOfCall :
      /\ processedEnvs[j].type \in {TYPE_ENV, TYPE_ENV_FILE}
      /\ Failed(processedEnvs[j])) =>
    pc # "thrown"

\* C9 amended: handling an Inline or File source never throws; its failure is
\* recorded on its row (a missing file as MISSING_ENV_FILE with the path) and
\* the loop goes on to the next source.  run() returns a report with a row
\* for every source of the plan unless a VaultFile source throws.
C9_InlineAndFileFailuresAreRecorded ==
  /\ pc = "thrown" => envs[idx].type = TYPE_ENV_VAULT_FILE
  /\ pc \in {"running", "thrown"} => Len(processedEnvs) = rowsBefore + idx - 1
  /\ pc = "returned" => Len(processedEnvs) = rowsBefore + Len(envs)
  /\ \A j \in RowsOfCall :
        LET row == processedEnvs[j]
            src == envs[j - rowsBefore]
        IN /\ row.type = src.type
           /\ row.type = TYPE_ENV =>
                /\ row.string = src.value
                /\ Failed(row) <=> src.value = S_BAD
           /\ row.type = TYPE_ENV_FILE =>
                /\ row.filepath = src.value
                /\ ~files[resolve(src.value)].exists <=>
                     (Failed(row) /\ row.error.code = "MISSING_ENV_FILE"
                                  /\ row.error.filepath = resolve(src.value))
                /\ ~files[resolve(src.value)].readable => Failed(row)
           /\ Failed(row) <=> ~Succeeded(row)

C9_Witness ==
  /\ pc = "returned" /\ Len(processedEnvs) = 3
  /\ Failed(processedEnvs[1]) /\ processedEnvs[1].error.code = "MISSING_ENV_FILE"
  /\ Failed(processedEnvs[2]) /\ processedEnvs[2].type = TYPE_ENV
  /\ Succeeded(processedEnvs[3]) /\ Has(processedEnvs[3].injected, "HELLO")
  /\ Get(processEnv, "HELLO") = "one"

IsSuffix(s, t) ==
  /\ Len(s) <= Len(t)
  /\ \A i \in 1..Len(s) : t[Len(t) - Len(s) + i] = s[i]

\* C10 as stated: the plan is callerEnvs itself or one default descriptor
\* followed by callerEnvs.
C10_PlanIsCallerEnvsOrOneDefaultMore ==
  \/ envs = callerEnvs
  \/ envs = <<FileDefault>> \o callerEnvs
  \/ envs = <<VaultDefault>> \o callerEnvs

\* C10 amended: the caller's entries are the end of the plan, unchanged and in
\* their order; the plan is callerEnvs itself or one default descriptor
\* followed by callerEnvs whenever callerEnvs is not empty or no ambient name
\* starts with DOTENV_PRIVATE_KEY.
C10_CallerEnvsAreKept ==
  /\ IsSuffix(callerEnvs, envs)
  /\ (callerEnvs # <<>> \/ dotenvPrivateKeyNames = <<>>) =>
        \/ envs = callerEnvs
        \/ envs = <<FileDefault>> \o callerEnvs
        \/ envs = <<VaultDefault>> \o callerEnvs

C10_Witness ==
  /\ Len(callerEnvs) = 2 /\ callerEnvs[1] # callerEnvs[2]
  /\ Len(envs) = 3
  /\ pc = "returned"

HasType(es, t) == \E i \in 1..Len(es) : es[i].type = t

\* C11: a non-empty callerEnvs is the plan as it is exactly when it holds a
\* VaultFile entry and the master secret is set, or a File entry and the
\* master secret is not set; otherwise the plan is callerEnvs after one
\* default, VaultFile(".env.vault") with a master secret and File(".env")
\* without.
C11_DefaultIsPrependedUnlessSpecified ==
  callerEnvs # <<>> =>
    IF \/ Len(DOTENV_KEY) > 0 /\ HasType(callerEnvs, "envVaultFile")
       \/ Len(DOTENV_KEY) = 0 /\ HasType(callerEnvs, "envFile")
    THEN envs = callerEnvs
    ELSE IF Len(DOTENV_KEY) > 0
    THEN envs = <<VaultDefault>> \o callerEnvs
    ELSE envs = <<FileDefault>> \o callerEnvs

C11_Witness ==
  /\ Len(callerEnvs) = 2
  /\ \A i \in 1..2 : callerEnvs[i].type = "envFile"
  /\ Len(DOTENV_KEY) > 0
  /\ envs[1] = VaultDefault /\ Len(envs) = 3
  /\ pc = "running" /\ idx = 2

\* the ambient names that start with DOTENV_PRIVATE_KEY, as they occur
AmbientPrivateKeyNames ==
  SelectSeq(ObjectKeys(ambientEnv),
            LAMBDA k : k \in {"DOTENV_PRIVATE_KEY", "DOTENV_PRIVATE_KEY_PRODUCTION"})

\* C12: without caller sources and with ambient names that start with
\* DOTENV_PRIVATE_KEY, the plan is one File descriptor per such name, in the
\* order of the names, and has no VaultFile entry, with or without a master
\* secret.
C12_PrivateKeysMakeThePlan ==
  (callerEnvs = <<>> /\ AmbientPrivateKeyNames # <<>>) =>
    /\ Len(envs) = Len(AmbientPrivateKeyNames)
    /\ \A i \in 1..Len(envs) :
          /\ envs[i].type = "envFile"
          /\ envs[i].value = IF AmbientPrivateKeyNames[i] = "DOTENV_PRIVATE_KEY"
                             THEN ".env" ELSE ".env.production"

C12_Witness ==
  /\ callerEnvs = <<>>
  /\ AmbientPrivateKeyNames = <<"DOTENV_PRIVATE_KEY_PRODUCTION", "DOTENV_PRIVATE_KEY">>
  /\ Len(DOTENV_KEY) > 0
  /\ pc = "returned" /\ Len(processedEnvs) = 2

WasRead(p) == files[resolve(p)].exists /\ files[resolve(p)].readable

\* the report lists the paths of the File and VaultFile rows whose file was
\* read and the strings of the Inline rows that were parsed, and nothing else
ReportListsWhatWasRead ==
  result.kind = "returned" =>
    LET rows == result.processedEnvs
    IN /\ Range(result.readableFilepaths) =
            {rows[j].filepath : j \in {i \in 1..Len(rows) :
                /\ rows[i].type \in {TYPE_ENV_FILE, TYPE_ENV_VAULT_FILE}
                /\ WasRead(rows[i].filepath)}}
       /\ Range(result.readableStrings) =
            {rows[j].string : j \in {i \in 1..Len(rows) :
                rows[i].type = TYPE_ENV /\ Succeeded(rows[i])}}

\* C13: a returned report lists in readableFilepaths exactly the paths of the
\* File and VaultFile sources whose file was read and in readableStrings
\* exactly the inline strings that were parsed; at no point of a run does
\* readableFilepaths hold the path of a file that was not read.
C13_ReadableListsHoldWhatWasRead ==
  /\ ReportListsWhatWasRead
  /\ \A i \in 1..Len(readableFilepaths) : WasRead(readableFilepaths[i])


\* the identifier of a row: the inline string or the path of the file
Identifier(row) == IF row.type = TYPE_ENV THEN row.string ELSE row.filepath

RowIsOf(row, env) == row.type = env.type /\ Identifier(row) = env.value

\* C14: a report returned by a first call of run() has one row per entry of
\* the plan, the i-th row having the type and the identifier of the i-th
\* entry; a step changes the rows only by appending the row of the source at
\* the loop's position, as the loop moves past it, and leaves the rows that
\* are there as they are.
C14_OneRowPerSourceInPlanOrder ==
  /\ []((result.kind = "returned" /\ calls = 1) =>
          /\ Len(result.processedEnvs) = Len(envs)
          /\ \A i \in 1..Len(envs) : RowIsOf(result.processedEnvs[i], envs[i]))
  /\ [][\/ processedEnvs' = processedEnvs
        \/ /\ Len(processedEnvs') = Len(processedEnvs) + 1
           /\ SubSeq(processedEnvs', 1, Len(processedEnvs)) = processedEnvs
           /\ pc = "running" /\ idx <= Len(envs) /\ idx' = idx + 1
           /\ RowIsOf(processedEnvs'[Len(processedEnvs')], envs[idx])]_vars

C14_Witness ==
  /\ result.kind = "returned" /\ calls = 1
  /\ Len(envs) = 3
  /\ envs[1].type = TYPE_ENV_VAULT_FILE /\ envs[2].type = TYPE_ENV /\ envs[3].type = TYPE_ENV_FILE
  /\ Failed(result.processedEnvs[2])
  /\ Succeeded(result.processedEnvs[3])


KeysOf(obj) == Range(ObjectKeys(obj))

\* the row of a source that failed
FailedShape(row) ==
  /\ "error" \in DOMAIN row
  /\ DOMAIN row \cap {"parsed", "warnings", "injected", "preExisted"} = {}

\* the row of a source that succeeded
SucceededShape(row) ==
  /\ "error" \notin DOMAIN row
  /\ {"parsed", "warnings", "injected", "preExisted"} \subseteq DOMAIN row
  /\ KeysOf(row.injected) \cap KeysOf(row.preExisted) = {}
  /\ KeysOf(row.injected) \cup KeysOf(row.preExisted) = KeysOf(row.parsed)

\* C15: every row of a returned report is either a failed row (error present;
\* parsed, injected and preExisted absent) or a succeeded row (error absent;
\* parsed, warnings, injected and preExisted present, the keys of injected
\* and of preExisted being disjoint and making up the keys of parsed), and
\* never both.
C15_RowsAreFailedOrSucceeded ==
  result.kind = "returned" =>
    \A i \in 1..Len(result.processedEnvs) :
       LET row == result.processedEnvs[i]
       IN /\ FailedShape(row) \/ SucceededShape(row)
          /\ ~(FailedShape(row) /\ SucceededShape(row))

C15_Witness ==
  /\ result.kind = "returned"
  /\ \E i, j \in 1..Len(result.processedEnvs) :
        /\ FailedShape(result.processedEnvs[i])
        /\ SucceededShape(result.processedEnvs[j])
        /\ result.processedEnvs[j].injected # <<>>
        /\ result.processedEnvs[j].preExisted # <<>>


\* the namespace after the injections of the rows of the call before row j
NamespaceBefore(j) ==
  Injections(ambientEnv, SubSeq(processedEnvs, rowsBefore + 1, j - 1))

\* C16: the expander of a source works on the namespace as the sources before
\* it in the call have left it: while the loop runs the namespace handed to
\* the next handler is the one at the call with the injections of the rows so
\* far, and in every succeeded row the reference ${HELLO} of WORLD has the
\* value HELLO had in the namespace after the rows before it (the source's
\* own HELLO where that namespace had none).
C16_ExpansionSeesEarlierInjections ==
  /\ pc = "running" => processEnv = NamespaceBefore(Len(processedEnvs) + 1)
  /\ \A j \in RowsOfCall :
        Defines(processedEnvs[j], "WORLD") =>
          Get(processedEnvs[j].parsed, "WORLD") =
            IF Has(NamespaceBefore(j), "HELLO")
            THEN Get(NamespaceBefore(j), "HELLO")
            ELSE Get(processedEnvs[j].parsed, "HELLO")

C16_Witness ==
  /\ pc = "returned"
  /\ ~Has(ambientEnv, "HELLO")
  /\ \E j, k \in RowsOfCall :
        /\ j < k
        /\ Succeeded(processedEnvs[j])
        /\ Has(processedEnvs[j].injected, "HELLO")
        /\ Defines(processedEnvs[k], "WORLD")
        /\ Get(processedEnvs[k].parsed, "WORLD") = Get(processedEnvs[j].injected, "HELLO")
        /\ Get(processedEnvs[k].parsed, "WORLD") # Get(processedEnvs[k].parsed, "HELLO")


\* the rows of the call that define the key, and the first of them
DefiningRows(key) == {j \in RowsOfCall : Defines(processedEnvs[j], key)}

FirstDefining(key) ==
  CHOOSE j \in DefiningRows(key) : \A k \in DefiningRows(key) : j <= k

\* C17: with overload = false, a key that the namespace did not hold when
\* run() was called and that succeeded sources of the call define has the
\* value of the first of them: that row lists the key under injected, every
\* later row defining it lists it under preExisted with the first source's
\* value and not under injected, and the namespace holds that value.
C17_FirstSourceWins ==
  ~overload =>
    \A key \in {"HELLO", "WORLD"} :
       (~Has(ambientEnv, key) /\ DefiningRows(key) # {}) =>
          LET f == FirstDefining(key)
              value == Get(processedEnvs[f].parsed, key)
          IN /\ Has(processedEnvs[f].injected, key)
             /\ Get(processedEnvs[f].injected, key) = value
             /\ \A j \in DefiningRows(key) :
                   j > f => /\ Has(processedEnvs[j].preExisted, key)
                            /\ Get(processedEnvs[j].preExisted, key) = value
                            /\ ~Has(processedEnvs[j].injected, key)
             /\ Has(processEnv, key) /\ Get(processEnv, key) = value

C17_Witness ==
  /\ pc = "returned" /\ ~overload
  /\ ~Has(ambientEnv, "HELLO")
  /\ Cardinality(DefiningRows("HELLO")) = 3
  /\ \E j \in DefiningRows("HELLO") :
        Get(processedEnvs[j].parsed, "HELLO") # Get(processEnv, "HELLO")


\* the step has handled a source and pushed a row carrying an error
FailedSourceHandled ==
  /\ Len(processedEnvs') = Len(processedEnvs) + 1
  /\ Failed(processedEnvs'[Len(processedEnvs')])

\* C18: the handling of a source that ends with an error on its row, be it
\* an inline string, a file or a vault file, leaves the namespace and
\* uniqueInjectedKeys as they were before the source was handled.
C18_FailedSourceChangesNothing ==
  [][FailedSourceHandled =>
       /\ processEnv' = processEnv
       /\ uniqueInjectedKeys' = uniqueInjectedKeys]_vars

C18_Witness ==
  /\ overload
  /\ Len(processedEnvs) = 3
  /\ \A j \in 1..3 : Failed(processedEnvs[j])
  /\ {processedEnvs[j].type : j \in 1..3} = {TYPE_ENV_VAULT_FILE, TYPE_ENV, TYPE_ENV_FILE}
  /\ Has(ambientEnv, "HELLO")
  /\ processEnv = ambientEnv /\ uniqueInjectedKeys = <<>>

====
